---- MODULE Spec2Model ----
(***************************************************************************)
(* A model of cruntils/gis.py: the EGM96 geoid height table (class Egm),   *)
(* the DMS <-> decimal degree converters, the ellipsoid selection of the   *)
(* ECEF conversions, the national grid reference formatter and the         *)
(* unfinished grid inverse projection.                                     *)
(*                                                                         *)
(* Every component is a set of pure functions (or an object whose state is *)
(* fixed after construction), so each component has its own specification  *)
(* (SpecEgm, SpecDms, ...) whose actions are the calls a client can make   *)
(* and whose variables record the last call and what it returned or        *)
(* raised.  Floating point quantities are modelled in fixed point; the     *)
(* unit of each quantity is stated where it is introduced.                 *)
(***************************************************************************)
EXTENDS Integers, Sequences, FiniteSets

VARIABLES
  Egm96GridHeights,  \* Egm: the loaded table, a sequence of rows
  gh,                \* Egm: the last GetHeight call and its outcome
  d2s,               \* the last DdToDms call and its outcome
  s2d,               \* the last DmsToDd call and its outcome
  ca,                \* a longitude and its conversions to unsigned and back
  el,                \* the last ECEF conversion call and its outcome
  gr,                \* the last NorthingsEastingsToGrid call and its outcome
  inv,               \* the GridEastNorthToLatLon call in progress
  ld,                \* Egm: the LoadData call in progress
  loc,               \* a CLocation object and the last call made on it
  gp                 \* two NorthingsEastingsToGrid calls and their outcomes

vars == <<Egm96GridHeights, gh, d2s, s2d, ca, el, gr, inv, ld, loc, gp>>

(***************************************************************************)
(* Generic helpers.                                                        *)
(***************************************************************************)

\* Python's round() of the rational num/den (den > 0) to an integer: to the
\* nearest, a tie going to the even neighbour.
RoundHalfEven(num, den) ==
  LET q == num \div den
      r == num % den
  IN  IF 2 * r < den THEN q
      ELSE IF 2 * r > den THEN q + 1
      ELSE IF q % 2 = 0 THEN q ELSE q + 1

\* Python's int() of the rational num/den (den > 0): truncation toward zero.
TruncDiv(num, den) ==
  IF num >= 0 THEN num \div den ELSE -((-num) \div den)

\* Python's list indexing seq[i], as a record: a negative index counts from
\* the end, and an index outside -len .. len-1 raises IndexError.
PyIndex(seq, i) ==
  IF i >= 0 /\ i < Len(seq) THEN [ok |-> TRUE, val |-> seq[i + 1]]
  ELSE IF i < 0 /\ i >= -Len(seq) THEN [ok |-> TRUE, val |-> seq[Len(seq) + i + 1]]
  ELSE [ok |-> FALSE, val |-> <<>>]

(***************************************************************************)
(* Egm: the geoid height table.                                            *)
(*                                                                         *)
(* Latitudes and longitudes are integers in units of 0.05 degree, heights  *)
(* in the table are integers in millimetres (the data file gives three     *)
(* decimals), and a height returned by GetHeight is an integer in          *)
(* centimetres (round(yx, 2)).                                             *)
(***************************************************************************)

\* self.StepSize = 0.25 degrees, in units of 0.05 degree.
StepSize == 5

\* The size of the loaded grid.  The real data file gives 721 rows of 1441
\* values; the model keeps the shape (a rectangular grid whose last row and
\* last column are the upper ends of the covered range) at a small size.
GridRows == 3
GridCols == 4

\* How many different tables the model loads.
NumGrids == 2

\* How far outside the covered range a query may lie, in units of 0.05 degree.
OutMargin == 7

\* The upper ends of the covered range (180 and 360 degrees on the real grid).
MaxLat == (GridRows - 1) * StepSize
MaxLon == (GridCols - 1) * StepSize

\* One sample of table number g, in millimetres.
SampleHeight(g, r, c) ==
  ((((r * 37) + (c * 101) + (g * 53)) % 211) - 105) * 7 + c

\* The table Egm.__init__ leaves in self.Egm96GridHeights (row 0 is the
\* southernmost row).
LoadedGrid(g) ==
  [r \in 1..GridRows |-> [c \in 1..GridCols |-> SampleHeight(g, r - 1, c - 1)]]

\* self.Egm96GridHeights[row][col], with Python's indexing.
GridCell(grid, row, col) ==
  LET r == PyIndex(grid, row)
  IN  IF ~r.ok THEN [ok |-> FALSE, val |-> 0]
      ELSE LET c == PyIndex(r.val, col)
           IN  IF ~c.ok THEN [ok |-> FALSE, val |-> 0] ELSE c

\* Egm.GetHeight(lat, lon): what it returns (ret, in centimetres) or raises.
GetHeight(grid, lat, lon) ==
  LET x == lon
      y == lat
      x1 == x - (x % StepSize)
      x2 == x1 + StepSize
      y1 == y - (y % StepSize)
      y2 == y1 + StepSize
      q11 == GridCell(grid, TruncDiv(y1, StepSize), TruncDiv(x1, StepSize))
      q12 == GridCell(grid, TruncDiv(y2, StepSize), TruncDiv(x1, StepSize))
      q21 == GridCell(grid, TruncDiv(y1, StepSize), TruncDiv(x2, StepSize))
      q22 == GridCell(grid, TruncDiv(y2, StepSize), TruncDiv(x2, StepSize))
      \* xy1, xy2 times (x2 - x1); yx times (x2 - x1) * (y2 - y1).
      xy1 == ((x2 - x) * q11.val) + ((x - x1) * q21.val)
      xy2 == ((x2 - x) * q12.val) + ((x - x1) * q22.val)
      yx == ((y2 - y) * xy1) + ((y - y1) * xy2)
  IN  IF ~(q11.ok /\ q12.ok /\ q21.ok /\ q22.ok)
        THEN [err |-> "IndexError", ret |-> 0]
        ELSE [err |-> "none",
              ret |-> RoundHalfEven(yx, (x2 - x1) * (y2 - y1) * 10)]


(***************************************************************************)
(* Strings.  A Python str is a sequence of one-character strings, so that  *)
(* formatting and parsing are computed character by character.             *)
(***************************************************************************)

DigitChars == <<"0", "1", "2", "3", "4", "5", "6", "7", "8", "9">>

IsDigit(c) == \E d \in 1..10 : DigitChars[d] = c

DigitVal(c) == (CHOOSE d \in 1..10 : DigitChars[d] = c) - 1

RECURSIVE Pow10(_)
Pow10(k) == IF k = 0 THEN 1 ELSE 10 * Pow10(k - 1)

\* str(n) (f"{n}") of a non-negative int.
RECURSIVE NatToStr(_)
NatToStr(n) ==
  IF n < 10 THEN <<DigitChars[n + 1]>>
  ELSE NatToStr(n \div 10) \o <<DigitChars[(n % 10) + 1]>>

\* int(s) of a sequence of digits (0 for the empty sequence).
RECURSIVE DigitsToNat(_)
DigitsToNat(s) ==
  IF s = <<>> THEN 0
  ELSE (10 * DigitsToNat(SubSeq(s, 1, Len(s) - 1))) + DigitVal(s[Len(s)])

\* str.rjust(width, fill).
RJust(s, width, fill) ==
  IF Len(s) >= width THEN s
  ELSE [i \in 1..(width - Len(s)) |-> fill] \o s

\* str.split(sep) with a one-character separator: every separator ends a
\* token, so two separators in a row give an empty token and the empty
\* string gives one empty token.
RECURSIVE Split(_, _)
Split(s, sep) ==
  IF \A i \in 1..Len(s) : s[i] # sep THEN <<s>>
  ELSE LET i == CHOOSE j \in 1..Len(s) :
                   s[j] = sep /\ \A h \in 1..(j - 1) : s[h] # sep
       IN  <<SubSeq(s, 1, i - 1)>> \o Split(SubSeq(s, i + 1, Len(s)), sep)

RECURSIVE StripZeros(_)
StripZeros(s) ==
  IF Len(s) > 1 /\ s[Len(s)] = "0" THEN StripZeros(SubSeq(s, 1, Len(s) - 1))
  ELSE s

(***************************************************************************)
(* DMS <-> decimal degrees.                                                *)
(*                                                                         *)
(* A decimal degree value is a record [neg, deg, frac]: its sign, its      *)
(* whole degrees and its fraction of a degree in units of 1/SubUnits of    *)
(* 0.0001 arc-second, finer than the 4 decimals DdToDms keeps of the       *)
(* seconds.  [neg |-> TRUE, deg |-> 0, frac |-> 0] is the float -0.0.      *)
(* The float arithmetic of the code is modelled exactly (its rounding      *)
(* errors, of the order of 1e-13 degree, are not modelled).                *)
(***************************************************************************)

\* round(sec, 4): the number of decimals kept of the seconds.
SecDecimals == 4

\* Units per 0.0001 arc-second.
SubUnits == 5

\* The largest whole degree of a valid latitude and of a valid longitude.
MaxLatDeg == 90
MaxLonDeg == 180

\* Units per arc-second, per arc-minute (60.0) and per degree (3600.0).
SecUnits == Pow10(SecDecimals) * SubUnits
MinUnits == 60 * SecUnits
DegUnits == 3600 * SecUnits

\* repr() of the float round(sec, 4), given in units of 0.0001: the shortest
\* decimal, with at least one digit after the point ("0.0", "24.4444").
FloatRepr(sec4) ==
  NatToStr(sec4 \div Pow10(SecDecimals)) \o <<".">> \o
    StripZeros(RJust(NatToStr(sec4 % Pow10(SecDecimals)), SecDecimals, "0"))

DegStrMutPad(deg, lat_or_lon) == RJust(NatToStr(deg), 2, "0")

\* deg_str: "bonus zeroes" to 2 characters for a latitude, 3 for a longitude.
DegStr(deg, lat_or_lon) ==
  IF lat_or_lon = "Lat" THEN RJust(NatToStr(deg), 2, "0")
  ELSE RJust(NatToStr(deg), 3, "0")

\* dd < 0 (false of -0.0).
IsNegative(dd) == dd.neg /\ (dd.deg > 0 \/ dd.frac > 0)

\* suffix: the hemisphere letter.
Suffix(dd, lat_or_lon) ==
  IF lat_or_lon = "Lat" THEN (IF IsNegative(dd) THEN "S" ELSE "N")
  ELSE (IF IsNegative(dd) THEN "W" ELSE "E")

\* DdToDms(dd, lat_or_lon): the string it returns or the exception it raises.
DdToDms(dd, lat_or_lon) ==
  LET \* dd_abs = abs(dd) is deg + frac; deg = int(dd_abs).
      deg == dd.deg
      \* min = int((dd_abs - deg) * 60)
      min == dd.frac \div MinUnits
      \* sec = (dd_abs - deg - (min / 60)) * 3600, then round(sec, 4).
      sec == RoundHalfEven(dd.frac - (min * MinUnits), SubUnits)
  IN  IF lat_or_lon \notin {"Lat", "Lon"}
        THEN [err |-> "UnboundLocalError", str |-> <<>>]
        ELSE [err |-> "none",
              str |-> DegStr(deg, lat_or_lon) \o <<" ">> \o NatToStr(min) \o <<" ">>
                        \o FloatRepr(sec) \o <<" ", Suffix(dd, lat_or_lon)>>]

\* float(tok), for the tokens written with a sign, digits and a decimal
\* point (exponents, "inf", "nan" and "_" are not in the model's alphabet):
\* ok is FALSE where float raises ValueError; the value is
\* (-1 if neg) * (ip + fp / 10^k).
ParseFloat(tok) ==
  LET signed == Len(tok) > 0 /\ tok[1] \in {"-", "+"}
      body == IF signed THEN Tail(tok) ELSE tok
      dots == {i \in 1..Len(body) : body[i] = "."}
      ok == /\ \A i \in 1..Len(body) : IsDigit(body[i]) \/ body[i] = "."
            /\ Cardinality(dots) <= 1
            /\ \E i \in 1..Len(body) : IsDigit(body[i])
      dot == IF dots = {} THEN Len(body) + 1 ELSE CHOOSE i \in dots : TRUE
  IN  IF ~ok THEN [ok |-> FALSE, neg |-> FALSE, ip |-> 0, fp |-> 0, k |-> 0]
      ELSE [ok |-> TRUE,
            neg |-> signed /\ tok[1] = "-",
            ip |-> DigitsToNat(SubSeq(body, 1, dot - 1)),
            fp |-> DigitsToNat(SubSeq(body, dot + 1, Len(body))),
            k |-> IF dots = {} THEN 0 ELSE Len(body) - dot]

\* The fraction fp / 10^k of a parsed float, in units of which `units` make
\* one (exact when 10^k divides `units`: up to 4 decimals).
FracUnits(f, units) == f.fp * (units \div Pow10(f.k))

\* A parsed float times `units`, signed.
FloatUnits(f, units) ==
  (IF f.neg THEN -1 ELSE 1) * ((f.ip * units) + FracUnits(f, units))

ZeroDd == [neg |-> FALSE, deg |-> 0, frac |-> 0]

\* The value whole + units / DegUnits (both signed) as a [neg, deg, frac].
NormalDd(whole, units) ==
  LET w == whole + (units \div DegUnits)
      u == units % DegUnits
  IN  IF w >= 0 THEN [neg |-> FALSE, deg |-> w, frac |-> u]
      ELSE IF u = 0 THEN [neg |-> TRUE, deg |-> -w, frac |-> 0]
      ELSE [neg |-> TRUE, deg |-> (-w) - 1, frac |-> DegUnits - u]

NegatesMutOnlySouth(hemisphere) == hemisphere = <<"S">>

\* (parts[3] == "S") or (parts[3] == "W")
Negates(hemisphere) == hemisphere \in {<<"S">>, <<"W">>}

\* DmsToDd(dms_str): the value it returns or the exception it raises.
DmsToDd(dms_str) ==
  LET parts == Split(dms_str, " ")
      \* deg = float(parts[0]); min = float(parts[1]) / 60.0;
      \* sec = float(parts[2]) / 3600.0
      deg == ParseFloat(parts[1])
      min == ParseFloat(parts[2])
      sec == ParseFloat(parts[3])
      \* dd = deg + min + sec
      dd == NormalDd((IF deg.neg THEN -1 ELSE 1) * deg.ip,
                     ((IF deg.neg THEN -1 ELSE 1) * FracUnits(deg, DegUnits))
                       + FloatUnits(min, MinUnits) + FloatUnits(sec, SecUnits))
  IN  IF ~deg.ok THEN [err |-> "ValueError", dd |-> ZeroDd]
      ELSE IF Len(parts) < 2 THEN [err |-> "IndexError", dd |-> ZeroDd]
      ELSE IF ~min.ok THEN [err |-> "ValueError", dd |-> ZeroDd]
      ELSE IF Len(parts) < 3 THEN [err |-> "IndexError", dd |-> ZeroDd]
      ELSE IF ~sec.ok THEN [err |-> "ValueError", dd |-> ZeroDd]
      ELSE IF Len(parts) < 4 THEN [err |-> "IndexError", dd |-> ZeroDd]
      \* if (parts[3] == "S") or (parts[3] == "W"): dd *= -1
      ELSE IF Negates(parts[4])
        THEN [err |-> "none", dd |-> [dd EXCEPT !.neg = ~dd.neg]]
      ELSE [err |-> "none", dd |-> dd]

(***************************************************************************)
(* Angles and CLocation.  Angles are integers in degrees.                  *)
(***************************************************************************)

\* utils.ConvertAngle(value, signed): for a signed result an angle >= 180
\* loses a full rotation, for an unsigned result an angle < 0 gains one,
\* and any other angle is returned as it is.
ConvertAngle(value, signed) ==
  IF signed /\ value >= 180 THEN value - 360
  ELSE IF ~signed /\ value < 0 THEN value + 360
  ELSE value

\* Python's None where a number is expected: a value no latitude or
\* longitude takes.
None == -1000000

\* CLocation(lat, lon, lat_signed, lon_signed): the object __init__ leaves.
CLocation(lat, lon, lat_signed, lon_signed) ==
  [Latitude |-> lat, Longitude |-> lon, LatSigned |-> lat_signed,
   LonSigned |-> lon_signed, ReferenceEllipsoid |-> "Wgs84", Name |-> <<>>]

GetLonMutFlag(self, signed) == ConvertAngle(self.Longitude, ~signed)

\* CLocation.GetLon(signed)
GetLon(self, signed) == ConvertAngle(self.Longitude, signed)

(***************************************************************************)
(* Reference ellipsoids and the two ECEF conversions.  Only the control    *)
(* flow of the conversions is modelled (which axes they compute with, what *)
(* they print and what they raise), not the trigonometry of their results. *)
(* An axis is a pair <<metres, ten-thousandths of a metre>>.               *)
(***************************************************************************)

\* GetAiry1830(): semi_major, semi_minor.
GetAiry1830 == [a |-> <<6377563, 3960>>, b |-> <<6356256, 9090>>]

\* GetWgs84(): semi_major, semi_minor.
GetWgs84 == [a |-> <<6378137, 0>>, b |-> <<6356752, 3141>>]

\* The local variables a, b before the ellipsoid is looked up.
Unbound == [a |-> <<>>, b |-> <<>>]

\* LatLonHeightToEcefCartesian(lat, lon, height, coord_format,
\* ellipsoid_ref); lat and lon are DMS strings when coord_format is
\* LatLonDms and numbers otherwise.
LatLonHeightToEcefCartesian(lat, lon, coord_format, ellipsoid_ref) ==
  LET \* lat = utils.DegToRad(DmsToDd(lat)); lon = utils.DegToRad(DmsToDd(lon))
      latdd == DmsToDd(lat)
      londd == DmsToDd(lon)
      axes == IF ellipsoid_ref = "Airy1830" THEN GetAiry1830
              ELSE IF ellipsoid_ref = "Wgs84" THEN GetWgs84
              ELSE Unbound
      printed == IF ellipsoid_ref \in {"Airy1830", "Wgs84"} THEN <<>>
                 ELSE <<"Invalid ellipsoid!">>
  IN  IF coord_format = "LatLonDms" /\ latdd.err # "none"
        THEN [err |-> latdd.err, printed |-> <<>>, axes |-> Unbound, returned |-> FALSE]
      ELSE IF coord_format = "LatLonDms" /\ londd.err # "none"
        THEN [err |-> londd.err, printed |-> <<>>, axes |-> Unbound, returned |-> FALSE]
      \* e2 = Eccentricity1(a, b) reads a and b.
      ELSE IF axes = Unbound
        THEN [err |-> "UnboundLocalError", printed |-> printed, axes |-> axes,
              returned |-> FALSE]
      ELSE [err |-> "none", printed |-> printed, axes |-> axes, returned |-> TRUE]

\* CartesianToLatLon(x, y, z, ellipsoid_ref)
CartesianToLatLon(x, y, z, ellipsoid_ref) ==
  LET axes == IF ellipsoid_ref = "Airy1830" THEN GetAiry1830
              ELSE IF ellipsoid_ref = "Wgs84" THEN GetWgs84
              ELSE Unbound
  IN  \* e2 = Eccentricity1(a, b) reads a and b.
      IF axes = Unbound
        THEN [err |-> "UnboundLocalError", printed |-> <<>>, axes |-> axes,
              returned |-> FALSE]
      \* tan_beta = ((b * z) / (a * p)) * ...: p = sqrt(x^2 + y^2) is 0.0.
      ELSE IF x = 0 /\ y = 0
        THEN [err |-> "ZeroDivisionError", printed |-> <<>>, axes |-> axes,
              returned |-> FALSE]
      \* tan_lon_prime = y / x
      ELSE IF x = 0
        THEN [err |-> "ZeroDivisionError", printed |-> <<>>, axes |-> axes,
              returned |-> FALSE]
      ELSE [err |-> "none", printed |-> <<>>, axes |-> axes, returned |-> TRUE]

(***************************************************************************)
(* National grid references.  Northings and eastings are integers in       *)
(* metres.                                                                 *)
(***************************************************************************)

UpperCase ==
  << "A", "B", "C", "D", "E", "F", "G", "H", "I", "J", "K", "L", "M",
     "N", "O", "P", "Q", "R", "S", "T", "U", "V", "W", "X", "Y", "Z" >>

\* chr(l + ord("A")), for the letters ("?" stands for any other character).
ChrFromA(l) == IF l >= 0 /\ l < 26 THEN UpperCase[l + 1] ELSE "?"

SkipIMutNoSkip(l) == l

\* if (l > 7): l += 1
SkipI(l) == IF l > 7 THEN l + 1 ELSE l

NorthingsEastingsToGridMutNoEast(ntings, etings, digits) ==
  LET e100km == etings \div 100000
      n100km == ntings \div 100000
      l1 == ((19 - n100km) - ((19 - n100km) % 5)) + ((e100km + 10) \div 5)
      l2 == ((19 - n100km) * 5) % 25
      letter_pair == <<ChrFromA(SkipI(l1)), ChrFromA(SkipI(l2))>>
      e == (etings % 100000) \div Pow10(5 - (digits \div 2))
      n == (ntings % 100000) \div Pow10(5 - (digits \div 2))
  IN  letter_pair \o <<" ">> \o RJust(NatToStr(e), digits \div 2, "0")
        \o <<" ">> \o RJust(NatToStr(n), digits \div 2, "0")

\* NorthingsEastingsToGrid(ntings, etings, digits), for an even digits from
\* 0 to 10.
NorthingsEastingsToGrid(ntings, etings, digits) ==
  LET e100km == etings \div 100000
      n100km == ntings \div 100000
      l1 == ((19 - n100km) - ((19 - n100km) % 5)) + ((e100km + 10) \div 5)
      l2 == (((19 - n100km) * 5) % 25) + (e100km % 5)
      letter_pair == <<ChrFromA(SkipI(l1)), ChrFromA(SkipI(l2))>>
      e == (etings % 100000) \div Pow10(5 - (digits \div 2))
      n == (ntings % 100000) \div Pow10(5 - (digits \div 2))
  IN  letter_pair \o <<" ">> \o RJust(NatToStr(e), digits \div 2, "0")
        \o <<" ">> \o RJust(NatToStr(n), digits \div 2, "0")

(***************************************************************************)
(* The grid inverse projection.  Northings and the meridional arc m are    *)
(* integers in metres, angles are integers in microradians, and sines and  *)
(* cosines are integers in ten-thousandths, computed by range reduction    *)
(* and the Taylor series: the model follows the loop of the code to about  *)
(* three significant digits, for northings whose cube fits the arithmetic. *)
(***************************************************************************)

\* pi / 2, pi and 2 pi, in microradians.
HalfPi == 1570796
Pi == 3141593
TwoPi == 6283185

\* (numer * scale) / den, without the product numer * scale.
MulDiv(numer, scale, den) ==
  ((numer \div den) * scale) + (((numer % den) * scale) \div den)

\* sin of an angle in 0 .. pi/2 given in ten-thousandths of a radian, in
\* ten-thousandths: t - t^3/3! + t^5/5! - t^7/7! + t^9/9!.
SinSeries(t) ==
  LET t2 == (t * t) \div 10000
      t3 == ((t * t2) \div 10000) \div 6
      t5 == ((t3 * t2) \div 10000) \div 20
      t7 == ((t5 * t2) \div 10000) \div 42
      t9 == ((t7 * t2) \div 10000) \div 72
  IN  t - t3 + t5 - t7 + t9

\* math.sin(x), x in microradians, in ten-thousandths.
Sin(x) ==
  LET r == x % TwoPi
  IN  IF r <= HalfPi THEN SinSeries(r \div 100)
      ELSE IF r <= Pi THEN SinSeries((Pi - r) \div 100)
      ELSE IF r <= Pi + HalfPi THEN -SinSeries((r - Pi) \div 100)
      ELSE -SinSeries((TwoPi - r) \div 100)

\* math.cos(x), x in microradians, in ten-thousandths.
Cos(x) == Sin(x + HalfPi)

\* sin(x) * cos(y), in millionths.
SinCos(x, y) == (Sin(x) * Cos(y)) \div 100

\* lat_0 = utils.DegToRad(49), in microradians.
lat_0 == 855211

\* n0 = -100000: true origin northings, metres.
n0 == -100000

\* (ntings - n0) / (a * f0), in microradians: a * f0 = 6375020.48 m for the
\* Airy 1830 semi-major axis and f0 = 0.9996012717.
LatStep(ntings) == ((ntings - n0) * 1000) \div 6375

\* The m the loop body computes from ntings and lat_dash, in metres.
ComputeM(ntings, lat_dash) ==
  LET nt2 == ntings * ntings
      nt3 == nt2 * ntings
      \* m1 = (1 + n + (5/4) n^2 + (5/4) n^3) * (lat_dash - lat_0)
      m1 == MulDiv(4 + (4 * ntings) + (5 * nt2) + (5 * nt3), lat_dash - lat_0, 4)
      \* m2 = (3 n + 3 n^2 + (21/8) n^3) * sin(lat_dash - lat_0) * cos(lat_dash + lat_0)
      m2 == MulDiv((24 * ntings) + (24 * nt2) + (21 * nt3),
                   SinCos(lat_dash - lat_0, lat_dash + lat_0), 8)
      \* m3 = ((15/8) n^2 + (15/8) n^3) * sin(2 (..)) * cos(2 (..))
      \*        - (35/24) n^3 * sin(3 (..)) * cos(3 (..))
      m3 == MulDiv((15 * nt2) + (15 * nt3),
                   SinCos(2 * (lat_dash - lat_0), 2 * (lat_dash + lat_0)), 8)
            - MulDiv(35 * nt3,
                     SinCos(3 * (lat_dash - lat_0), 3 * (lat_dash + lat_0)), 24)
      sum == m1 - m2 + m3
  IN  \* m = b * f0 * (m1 - m2 + m3), b * f0 = 6353722.49 m; sum in millionths.
      (6 * sum) + MulDiv(sum, 3537, 10000)

\* The loop test (ntings - n0 - m) >= 0.001, on whole metres.
LoopTest(ntings, m) == (ntings - n0 - m) > 0

(***************************************************************************)
(* The state before any call.                                              *)
(***************************************************************************)

NoCall == [called |-> FALSE, lat |-> 0, lon |-> 0, err |-> "none", ret |-> 0]
NoD2s == [called |-> FALSE, dd |-> ZeroDd, axis |-> "Lat", err |-> "none", str |-> <<>>]
NoS2d == [called |-> FALSE, str |-> <<>>, err |-> "none", dd |-> ZeroDd]
NoCa == [stage |-> 0, L |-> 0, u |-> 0, s |-> 0]
NoEl == [called |-> FALSE, fn |-> "", coord_format |-> "", lat |-> <<>>, lon |-> <<>>,
         x |-> 0, y |-> 0, z |-> 0, ellipsoid_ref |-> "", err |-> "none",
         printed |-> <<>>, axes |-> Unbound, returned |-> FALSE]
NoGr == [called |-> FALSE, ntings |-> 0, etings |-> 0, digits |-> 0, ret |-> <<>>]
NoInv == [pc |-> "idle", ntings |-> 0, etings |-> 0, lat_dash |-> 0, m |-> 0,
          iters |-> 0, err |-> "none", ret |-> "none"]

NoFile == [header |-> <<>>, shape |-> <<>>, width |-> 0, indent |-> FALSE,
           newline |-> FALSE]
NoLd == [pc |-> "idle", file |-> NoFile, data |-> <<>>, lines |-> <<>>, index |-> 0,
         current_row |-> <<>>, row_length |-> 0]
NoLoc == [obj |-> CLocation(None, None, TRUE, TRUE), op |-> "", signed |-> TRUE,
          before |-> CLocation(None, None, TRUE, TRUE), err |-> "none", ret |-> <<>>]
NoGp == [calls |-> 0, first |-> [ntings |-> 0, etings |-> 0, ret |-> <<>>],
         second |-> [ntings |-> 0, etings |-> 0, ret |-> <<>>]]

EgmIdle == Egm96GridHeights = LoadedGrid(0) /\ gh = NoCall
DmsIdle == d2s = NoD2s /\ s2d = NoS2d
AngleIdle == ca = NoCa
EllipsoidIdle == el = NoEl
GridIdle == gr = NoGr
InverseIdle == inv = NoInv
LoadIdle == ld = NoLd
LocationIdle == loc = NoLoc
PairIdle == gp = NoGp

(***************************************************************************)
(* Egm: a client constructs the table and queries it.                      *)
(***************************************************************************)

InitEgm ==
  /\ Egm96GridHeights \in {LoadedGrid(g) : g \in 0..(NumGrids - 1)}
  /\ gh = NoCall
  /\ DmsIdle /\ AngleIdle /\ EllipsoidIdle /\ GridIdle /\ InverseIdle /\ LoadIdle /\ LocationIdle /\ PairIdle

\* A client calls GetHeight(lat, lon) on the loaded table.  GetHeight changes
\* nothing of the table, so a behaviour holds one call: a second call would
\* start from the same table as the first.
GetHeightCall ==
  /\ ~gh.called
  /\ \E lat \in (-OutMargin)..(MaxLat + OutMargin), lon \in (-OutMargin)..(MaxLon + OutMargin) :
       LET r == GetHeight(Egm96GridHeights, lat, lon)
       IN  gh' = [called |-> TRUE, lat |-> lat, lon |-> lon, err |-> r.err, ret |-> r.ret]
  /\ UNCHANGED <<Egm96GridHeights, d2s, s2d, ca, el, gr, inv, ld, loc, gp>>

NextEgm == GetHeightCall

SpecEgm == InitEgm /\ [][NextEgm]_vars

\* The query of the last call lies on a grid node of the loaded table.
OnGridNode ==
  /\ gh.lat % StepSize = 0 /\ gh.lon % StepSize = 0
  /\ gh.lat >= 0 /\ gh.lat <= MaxLat
  /\ gh.lon >= 0 /\ gh.lon <= MaxLon

\* The stored sample at the node of the last call, rounded to 2 decimals.
NodeSample ==
  RoundHalfEven(Egm96GridHeights[(gh.lat \div StepSize) + 1][(gh.lon \div StepSize) + 1], 10)

\* C1: GetHeight on a query that coincides with a grid node of the table
\* returns that node's stored sample, rounded to 2 decimals.
C1_NodeReturnsSample ==
  (gh.called /\ OnGridNode) => (gh.err = "none" /\ gh.ret = NodeSample)

\* What does hold of C1: at every node that is not in the last row or the
\* last column the stored sample is returned (the other three samples have
\* weight zero), and at the nodes of the last row and last column GetHeight
\* raises IndexError.
C1_NodeBelowUpperEdge ==
  (gh.called /\ OnGridNode) =>
     IF gh.lat < MaxLat /\ gh.lon < MaxLon
       THEN gh.err = "none" /\ gh.ret = NodeSample
       ELSE gh.err = "IndexError"

\* C2: a query outside the covered range (lat < 0, lat > 180, lon < 0 or
\* lon > 360 on the real grid) fails with an error and returns no height.
C2_OutsideFails ==
  (gh.called /\ (gh.lat < 0 \/ gh.lat > MaxLat \/ gh.lon < 0 \/ gh.lon > MaxLon))
     => gh.err # "none"

\* C3: every query inside the covered range, the upper boundaries included,
\* returns a height: all four row/column indices lie inside the grid.
C3_InsideReturns ==
  (gh.called /\ gh.lat >= 0 /\ gh.lat <= MaxLat /\ gh.lon >= 0 /\ gh.lon <= MaxLon)
     => gh.err = "none"


(***************************************************************************)
(* The calls a client makes of the two converters: DdToDms on a value, and *)
(* DmsToDd on the string DdToDms just returned (a round trip) or on a      *)
(* string of its own.                                                      *)
(***************************************************************************)

\* The longest string a client writes itself, in tokens.
MaxTokens == 5

\* The fractions of a degree a client converts: around zero and the
\* rounding step, around whole seconds, minutes and degrees, and in between.
FracSamples ==
  { 0, 1, 2, 3, SubUnits - 1, SubUnits, SubUnits + 1, SecUnits,
    MinUnits - 1, MinUnits, MinUnits + (SubUnits \div 2) + 1, DegUnits \div 3,
    DegUnits \div 2, (7 * MinUnits) + (244444 * SubUnits),
    DegUnits - MinUnits, DegUnits - 2, DegUnits - 1 }

DdSamples == [neg : BOOLEAN, deg : 0..MaxLonDeg, frac : FracSamples]

\* The tokens a client writes: a whole number, a negative number with
\* decimals, a hemisphere letter, another letter, and the empty token (two
\* spaces in a row).
TokPool ==
  { <<"1", "0">>, <<"-", "3", "0", ".", "5">>, <<"S">>, <<"X">>, <<>> }

\* " ".join(tokens)
RECURSIVE Join(_)
Join(tokens) ==
  IF tokens = <<>> THEN <<>>
  ELSE IF Len(tokens) = 1 THEN tokens[1]
  ELSE tokens[1] \o <<" ">> \o Join(Tail(tokens))

PoolStrings ==
  UNION { {Join(ts) : ts \in [1..n -> TokPool]} : n \in 0..MaxTokens }

\* A client calls DdToDms(dd, lat_or_lon).
DdToDmsCall ==
  /\ ~d2s.called /\ ~s2d.called
  /\ \E dd \in DdSamples, axis \in {"Lat", "Lon", "Other"} :
       LET r == DdToDms(dd, axis)
       IN  d2s' = [called |-> TRUE, dd |-> dd, axis |-> axis, err |-> r.err, str |-> r.str]
  /\ UNCHANGED <<Egm96GridHeights, gh, s2d, ca, el, gr, inv, ld, loc, gp>>

\* A client calls DmsToDd(dms_str): on the string the DdToDms call before it
\* returned, or, with no such call, on a string of its own.
DmsToDdCall ==
  /\ ~s2d.called
  /\ d2s.called => d2s.err = "none"
  /\ \E str \in (IF d2s.called THEN {d2s.str} ELSE PoolStrings) :
       LET r == DmsToDd(str)
       IN  s2d' = [called |-> TRUE, str |-> str, err |-> r.err, dd |-> r.dd]
  /\ UNCHANGED <<Egm96GridHeights, gh, d2s, ca, el, gr, inv, ld, loc, gp>>

InitDms ==
  EgmIdle /\ DmsIdle /\ AngleIdle /\ EllipsoidIdle /\ GridIdle /\ InverseIdle /\ LoadIdle /\ LocationIdle /\ PairIdle

NextDms == DdToDmsCall \/ DmsToDdCall

SpecDms == InitDms /\ [][NextDms]_vars

\* The last DmsToDd call parsed what the DdToDms call before it returned.
RoundTrip == d2s.called /\ s2d.called /\ s2d.str = d2s.str

\* A value of the valid range of its axis: [-90, 90] for a latitude and
\* [-180, 180] for a longitude.
ValidDd(dd, axis) ==
  \/ axis = "Lat" /\ (dd.deg < MaxLatDeg \/ (dd.deg = MaxLatDeg /\ dd.frac = 0))
  \/ axis = "Lon" /\ (dd.deg < MaxLonDeg \/ (dd.deg = MaxLonDeg /\ dd.frac = 0))

Abs(n) == IF n < 0 THEN -n ELSE n

\* |a - b| in units, for two values less than two degrees apart (and
\* 2 * DegUnits for values further apart).
DiffUnits(a, b) ==
  LET aw == IF a.neg THEN -a.deg ELSE a.deg
      bw == IF b.neg THEN -b.deg ELSE b.deg
      af == IF a.neg THEN -a.frac ELSE a.frac
      bf == IF b.neg THEN -b.frac ELSE b.frac
  IN  IF Abs(aw - bw) > 2 THEN 2 * DegUnits
      ELSE Abs(((aw - bw) * DegUnits) + (af - bf))

\* The sign of a value as a number: -1, 0 or 1 (0 for 0.0 and for -0.0).
Sign(dd) == IF dd.deg = 0 /\ dd.frac = 0 THEN 0 ELSE IF dd.neg THEN -1 ELSE 1

\* 1e-4 degree, in units.
Tolerance == DegUnits \div Pow10(4)

\* C5, as claimed: for every x in the valid range, DmsToDd(DdToDms(x, axis))
\* differs from x by less than 1e-4 degree and has the sign of x when x is
\* not zero.
C5_RoundTripSameSign ==
  (RoundTrip /\ ValidDd(d2s.dd, d2s.axis)) =>
     /\ s2d.err = "none"
     /\ DiffUnits(s2d.dd, d2s.dd) < Tolerance
     /\ Sign(d2s.dd) # 0 => Sign(s2d.dd) = Sign(d2s.dd)

\* C5, amended: for every x in the valid range, DmsToDd(DdToDms(x, axis))
\* differs from x by less than 1e-4 degree and never has the sign opposite
\* to x; it has the sign of x when |x| is at least 0.0001 arc-second, and
\* for a smaller x it is zero or has the sign of x (the seconds are rounded
\* to 4 decimals, which sends |x| below 0.00005 arc-second to "0.0").
C5_RoundTripWithinTolerance ==
  (RoundTrip /\ ValidDd(d2s.dd, d2s.axis)) =>
     /\ s2d.err = "none"
     /\ DiffUnits(s2d.dd, d2s.dd) < Tolerance
     /\ Sign(s2d.dd) \in {0, Sign(d2s.dd)}
     /\ (d2s.dd.deg > 0 \/ d2s.dd.frac >= SubUnits) => Sign(s2d.dd) = Sign(d2s.dd)

\* A round trip of -179 07' 24.4444" as a longitude, which comes back as
\* the same negative value.
C5_Witness ==
  /\ RoundTrip
  /\ d2s.axis = "Lon"
  /\ d2s.dd = [neg |-> TRUE, deg |-> 179, frac |-> (7 * MinUnits) + (244444 * SubUnits)]
  /\ s2d.err = "none"
  /\ s2d.dd = d2s.dd

\* The number of decimal digits of a whole degree below 1000.
NumDigits(n) == IF n < 10 THEN 1 ELSE IF n < 100 THEN 2 ELSE 3

\* The number of space-separated fields of a string.
FieldCount(str) == Cardinality({i \in 1..Len(str) : str[i] = " "}) + 1

\* C6: DdToDms(dd, axis) returns four space-separated fields; the degree
\* field is the integer part of |dd| left-padded with zeros to 2 characters
\* for a latitude and 3 for a longitude; the hemisphere letter is S
\* (latitude) or W (longitude) exactly when dd < 0, and N or E otherwise.
C6_DegreeFieldAndHemisphere ==
  (d2s.called /\ d2s.axis \in {"Lat", "Lon"}) =>
     LET fields == Split(d2s.str, " ")
         width == IF d2s.axis = "Lat" THEN 2 ELSE 3
         below == d2s.dd.neg /\ (d2s.dd.deg > 0 \/ d2s.dd.frac > 0)
     IN  /\ d2s.err = "none"
         /\ FieldCount(d2s.str) = 4
         /\ Len(fields) = 4
         /\ \A i \in 1..Len(fields[1]) : IsDigit(fields[1][i])
         /\ DigitsToNat(fields[1]) = d2s.dd.deg
         /\ Len(fields[1]) = (IF NumDigits(d2s.dd.deg) > width
                                THEN NumDigits(d2s.dd.deg) ELSE width)
         /\ fields[4] = (IF d2s.axis = "Lat"
                           THEN (IF below THEN <<"S">> ELSE <<"N">>)
                           ELSE (IF below THEN <<"W">> ELSE <<"E">>))

\* DdToDms(-7.5, Lon) returned "007 30 0.0 W".
C6_Witness ==
  /\ d2s.called
  /\ d2s.axis = "Lon"
  /\ d2s.dd = [neg |-> TRUE, deg |-> 7, frac |-> DegUnits \div 2]
  /\ d2s.str = <<"0", "0", "7", " ", "3", "0", " ", "0", ".", "0", " ", "W">>

\* A string is malformed when it has not exactly 4 space-separated tokens or
\* when one of its first three tokens is not a number.
Malformed(str) ==
  \/ FieldCount(str) # 4
  \/ \E i \in 1..3 : ~ParseFloat(Split(str, " ")[i]).ok

\* C7: DmsToDd fails with an error and returns no value on every malformed
\* string: fewer or more than 4 tokens, or a degree, minute or second token
\* that is not numeric.
C7_MalformedFails ==
  (s2d.called /\ Malformed(s2d.str)) => s2d.err # "none"

\* What does hold of C7: DmsToDd raises (ValueError or IndexError) exactly
\* when one of the first three tokens is missing or not a number or the
\* fourth is missing; tokens after the fourth are ignored.
C7_FailsOnFirstFourTokens ==
  s2d.called =>
     LET parts == Split(s2d.str, " ")
     IN  (s2d.err # "none") <=>
           (Len(parts) < 4 \/ \E i \in 1..3 : ~ParseFloat(parts[i]).ok)


(***************************************************************************)
(* Longitudes: a client holds a longitude L, reads it as unsigned through  *)
(* a CLocation, and reads that value as signed through another.            *)
(***************************************************************************)

\* The largest longitude a client holds, in degrees.
MaxAngle == 720

InitAngle ==
  /\ ca \in {[stage |-> 0, L |-> L, u |-> 0, s |-> 0] : L \in (-MaxAngle)..MaxAngle}
  /\ EgmIdle /\ DmsIdle /\ EllipsoidIdle /\ GridIdle /\ InverseIdle /\ LoadIdle /\ LocationIdle /\ PairIdle

\* u = CLocation(0, L).GetLon(signed=False)
ToUnsigned ==
  /\ ca.stage = 0
  /\ ca' = [ca EXCEPT !.stage = 1, !.u = GetLon(CLocation(0, ca.L, TRUE, TRUE), FALSE)]
  /\ UNCHANGED <<Egm96GridHeights, gh, d2s, s2d, el, gr, inv, ld, loc, gp>>

\* s = CLocation(0, u, lon_signed=False).GetLon(signed=True)
ToSigned ==
  /\ ca.stage = 1
  /\ ca' = [ca EXCEPT !.stage = 2, !.s = GetLon(CLocation(0, ca.u, TRUE, FALSE), TRUE)]
  /\ UNCHANGED <<Egm96GridHeights, gh, d2s, s2d, el, gr, inv, ld, loc, gp>>

NextAngle == ToUnsigned \/ ToSigned

SpecAngle == InitAngle /\ [][NextAngle]_vars

\* C4: a longitude L converted to unsigned and then to signed is L modulo
\* 360, and lies in [-180, 180) whenever L lies in [-180, 360).
C4_UnsignedThenSigned ==
  ca.stage = 2 =>
     /\ (ca.s - ca.L) % 360 = 0
     /\ (ca.L >= -180 /\ ca.L < 360) => (ca.s >= -180 /\ ca.s < 180)

\* L = 270 went to unsigned 270 and came back as signed -90.
C4_Witness == ca.stage = 2 /\ ca.L = 270 /\ ca.u = 270 /\ ca.s = -90

(***************************************************************************)
(* The ECEF conversions: a client calls one of them with an ellipsoid      *)
(* identifier, which may be none of the EReferenceEllipsoid members.       *)
(***************************************************************************)

\* The largest coordinate a client passes to CartesianToLatLon (the model
\* keeps the sign and the zero of a coordinate, not its size).
MaxCoord == 1

EllipsoidRefs == {"Airy1830", "Wgs84", "None", "Grs80"}

\* The DMS strings a client passes: well formed, and with a token missing.
EcefStrings ==
  { Join(<< <<"1", "0">>, <<"3", "0", ".", "5">>, <<"1", "0">>, <<"N">> >>),
    Join(<< <<"1", "0">>, <<"1", "0">>, <<"3", "0", ".", "5">>, <<"S">> >>),
    Join(<< <<"1", "0">>, <<"1", "0">>, <<"N">> >>) }

InitEllipsoid ==
  EgmIdle /\ DmsIdle /\ AngleIdle /\ EllipsoidIdle /\ GridIdle /\ InverseIdle /\ LoadIdle /\ LocationIdle /\ PairIdle

\* A LatLonDms call passes strings; the other formats pass numbers, of which
\* the model keeps nothing: no step of the function fails on a finite angle.
EcefAngles(coord_format) ==
  IF coord_format = "LatLonDms" THEN EcefStrings ELSE {<<>>}

LatLonHeightToEcefCartesianCall ==
  /\ ~el.called
  /\ \E coord_format \in {"LatLonRad", "LatLonDd", "LatLonDms"},
        ellipsoid_ref \in EllipsoidRefs :
       \E lat \in EcefAngles(coord_format), lon \in EcefAngles(coord_format) :
         LET r == LatLonHeightToEcefCartesian(lat, lon, coord_format, ellipsoid_ref)
         IN  el' = [NoEl EXCEPT !.called = TRUE, !.fn = "LatLonHeightToEcefCartesian",
                      !.coord_format = coord_format, !.lat = lat, !.lon = lon,
                      !.ellipsoid_ref = ellipsoid_ref, !.err = r.err,
                      !.printed = r.printed, !.axes = r.axes, !.returned = r.returned]
  /\ UNCHANGED <<Egm96GridHeights, gh, d2s, s2d, ca, gr, inv, ld, loc, gp>>

CartesianToLatLonCall ==
  /\ ~el.called
  /\ \E x \in (-MaxCoord)..MaxCoord, y \in (-MaxCoord)..MaxCoord,
        z \in (-MaxCoord)..MaxCoord, ellipsoid_ref \in EllipsoidRefs :
       LET r == CartesianToLatLon(x, y, z, ellipsoid_ref)
       IN  el' = [NoEl EXCEPT !.called = TRUE, !.fn = "CartesianToLatLon",
                    !.x = x, !.y = y, !.z = z,
                    !.ellipsoid_ref = ellipsoid_ref, !.err = r.err,
                    !.printed = r.printed, !.axes = r.axes, !.returned = r.returned]
  /\ UNCHANGED <<Egm96GridHeights, gh, d2s, s2d, ca, gr, inv, ld, loc, gp>>

NextEllipsoid == LatLonHeightToEcefCartesianCall \/ CartesianToLatLonCall

SpecEllipsoid == InitEllipsoid /\ [][NextEllipsoid]_vars

\* C8: a call of LatLonHeightToEcefCartesian or CartesianToLatLon with an
\* ellipsoid identifier that is neither Airy1830 nor Wgs84 fails with an
\* InvalidEllipsoid error: it is not merely printed, and the computation
\* does not go on with unset axes.
C8_InvalidEllipsoidFails ==
  (el.called /\ el.ellipsoid_ref \notin {"Airy1830", "Wgs84"}) =>
     (el.err = "InvalidEllipsoid" /\ el.printed = <<>>)

\* What does hold of C8: with such an identifier neither function returns
\* a result; each raises, but never an InvalidEllipsoid error: a parse
\* error of DmsToDd, or the UnboundLocalError of reading the unset axis a
\* (after LatLonHeightToEcefCartesian has printed "Invalid ellipsoid!").
C8_UnsetAxesRaise ==
  (el.called /\ el.ellipsoid_ref \notin {"Airy1830", "Wgs84"}) =>
     /\ ~el.returned
     /\ el.err \in {"UnboundLocalError", "ValueError", "IndexError"}
     /\ el.err = "UnboundLocalError" =>
          (el.printed = <<"Invalid ellipsoid!">>) = (el.fn = "LatLonHeightToEcefCartesian")

(***************************************************************************)
(* Grid references: a client formats a northing and an easting.            *)
(***************************************************************************)

\* The number of 100 km squares of the grid, eastwards and northwards.
EastSquares == 7
NorthSquares == 13

\* The positions a client formats inside a 100 km square, in metres.
RemSamples == {0, 7, 10, 409, 1234, 51409, 99999}

DigitsSamples == {0, 2, 4, 6, 8, 10}

InitGrid ==
  EgmIdle /\ DmsIdle /\ AngleIdle /\ EllipsoidIdle /\ GridIdle /\ InverseIdle /\ LoadIdle /\ LocationIdle /\ PairIdle

NorthingsEastingsToGridCall ==
  /\ ~gr.called
  /\ \E e100 \in 0..(EastSquares - 1), n100 \in 0..(NorthSquares - 1),
        er \in RemSamples, nr \in RemSamples, digits \in DigitsSamples :
       LET etings == (e100 * 100000) + er
           ntings == (n100 * 100000) + nr
       IN  gr' = [called |-> TRUE, ntings |-> ntings, etings |-> etings,
                  digits |-> digits,
                  ret |-> NorthingsEastingsToGrid(ntings, etings, digits)]
  /\ UNCHANGED <<Egm96GridHeights, gh, d2s, s2d, ca, el, inv, ld, loc, gp>>

NextGrid == NorthingsEastingsToGridCall

SpecGrid == InitGrid /\ [][NextGrid]_vars

\* C10: for an easting in [0, 700000), a northing in [0, 1300000) and
\* digits in {2, 4, 6, 8, 10}, NorthingsEastingsToGrid returns two upper
\* case letters other than I, a space, the easting inside its 100 km square
\* truncated to digits/2 digits and zero-padded to digits/2 characters, a
\* space, and the northing inside its square in the same format.
C10_GridReferenceFormat ==
  (/\ gr.called
   /\ gr.etings >= 0 /\ gr.etings < 700000
   /\ gr.ntings >= 0 /\ gr.ntings < 1300000
   /\ gr.digits \in {2, 4, 6, 8, 10}) =>
     LET h == gr.digits \div 2
         letters == {UpperCase[i] : i \in 1..26} \ {"I"}
         efield == SubSeq(gr.ret, 4, 3 + h)
         nfield == SubSeq(gr.ret, 5 + h, 4 + (2 * h))
     IN  /\ Len(gr.ret) = 4 + (2 * h)
         /\ gr.ret[1] \in letters /\ gr.ret[2] \in letters
         /\ gr.ret[3] = " " /\ gr.ret[4 + h] = " "
         /\ \A i \in 1..h : IsDigit(efield[i]) /\ IsDigit(nfield[i])
         /\ DigitsToNat(efield) = (gr.etings % 100000) \div Pow10(5 - h)
         /\ DigitsToNat(nfield) = (gr.ntings % 100000) \div Pow10(5 - h)

\* NorthingsEastingsToGrid(300409, 651409, 6) returned "TG 514 004".
C10_Witness ==
  /\ gr.called
  /\ gr.ntings = 300409 /\ gr.etings = 651409 /\ gr.digits = 6
  /\ gr.ret = <<"T", "G", " ", "5", "1", "4", " ", "0", "0", "4">>

(***************************************************************************)
(* The grid inverse projection: a client calls GridEastNorthToLatLon, and  *)
(* the loop of the function runs one iteration a step.                     *)
(***************************************************************************)

\* The largest northing (in metres, either side of zero) whose loop the
\* model runs, and the number of iterations the model follows a loop for.
MaxNorthing == 3
MaxIters == 40

NorthingSamples == {2 * n0, n0} \cup ((-MaxNorthing)..MaxNorthing)

InitInverse ==
  EgmIdle /\ DmsIdle /\ AngleIdle /\ EllipsoidIdle /\ GridIdle /\ InverseIdle /\ LoadIdle /\ LocationIdle /\ PairIdle

\* The call, up to the first test of the loop: lat_dash and m = 0.
GridEastNorthToLatLonCall ==
  /\ inv.pc = "idle"
  /\ \E ntings \in NorthingSamples, etings \in {0, 400000} :
       inv' = [NoInv EXCEPT !.pc = "loop", !.ntings = ntings, !.etings = etings,
                 !.lat_dash = LatStep(ntings) + lat_0, !.m = 0]
  /\ UNCHANGED <<Egm96GridHeights, gh, d2s, s2d, ca, el, gr, ld, loc, gp>>

\* One iteration of the loop: the test holds, m and lat_dash are computed.
LoopBody ==
  /\ inv.pc = "loop"
  /\ LoopTest(inv.ntings, inv.m)
  /\ inv.iters < MaxIters
  /\ inv' = [inv EXCEPT !.m = ComputeM(inv.ntings, inv.lat_dash),
               !.lat_dash = LatStep(inv.ntings) + inv.lat_dash,
               !.iters = inv.iters + 1]
  /\ UNCHANGED <<Egm96GridHeights, gh, d2s, s2d, ca, el, gr, ld, loc, gp>>

\* The test fails: the function ends, and returns None.
LoopExit ==
  /\ inv.pc = "loop"
  /\ ~LoopTest(inv.ntings, inv.m)
  /\ inv' = [inv EXCEPT !.pc = "done", !.ret = "None"]
  /\ UNCHANGED <<Egm96GridHeights, gh, d2s, s2d, ca, el, gr, ld, loc, gp>>

NextInverse == GridEastNorthToLatLonCall \/ LoopBody \/ LoopExit

SpecInverse == InitInverse /\ [][NextInverse]_vars

\* C9: the loop of GridEastNorthToLatLon ends either because
\* |northing - N0 - M| has dropped below the tolerance or by failing with
\* a convergence error.
C9_ExitsConvergedOrFails ==
  inv.pc = "done" =>
     (inv.ntings - n0 - inv.m = 0 \/ inv.err = "ConvergenceError")

\* What does hold of C9's loop: it ends as soon as m exceeds
\* northing - N0, however far, with no error; and on the northings of the
\* model it does so within MaxIters iterations.
C9_ExitsOnOvershoot ==
  /\ inv.pc = "done" => (inv.ntings - n0 - inv.m <= 0 /\ inv.err = "none")
  /\ (inv.pc = "loop" /\ LoopTest(inv.ntings, inv.m)) => inv.iters < MaxIters

(***************************************************************************)
(* Egm.LoadData: a fresh instance reads its data file, one line of the     *)
(* file a step.  The file is text; a height is written in metres with      *)
(* three decimals and held in millimetres.                                 *)
(***************************************************************************)

\* The most rows of a file, the most several-value lines of a row, and the
\* most values of such a line.
MaxRows == 2
MaxLines == 2
MaxWidth == 3

\* A height written as the file writes it: sign, metres, ".", three decimals.
HeightStr(mm) ==
  LET a == IF mm < 0 THEN -mm ELSE mm
  IN  (IF mm < 0 THEN <<"-">> ELSE <<>>)
        \o NatToStr(a \div 1000) \o <<".">> \o RJust(NatToStr(a % 1000), 3, "0")

\* The header lines of the files: words, several numbers, and one number.
HeaderSamples ==
  { <<"E", "G", "M">>,
    <<"9", "0", ".", "0", " ", "0", ".", "2", "5">>,
    <<"7">> }

\* A file: its header, for each row the number of its several-value lines
\* (shape), the number of values of such a line (width); whether its lines
\* begin with a space and values are two spaces apart (indent), and whether
\* it ends with a line break (newline).
Shapes == UNION { [1..k -> 0..MaxLines] : k \in 0..MaxRows }

Files ==
  [header : HeaderSamples, shape : Shapes, width : 2..MaxWidth,
   indent : BOOLEAN, newline : BOOLEAN]

\* The number of values of row r of a file.
RowLen(file, r) == (file.shape[r] * file.width) + 1

\* Row r of a file (r = 1 is the first row of the file): its values in
\* file order, in millimetres.
FileRow(file, r) == [c \in 1..RowLen(file, r) |-> SampleHeight(0, r - 1, c - 1)]

\* One line of values, as text.
ValueLine(file, values) ==
  LET toks == [i \in 1..Len(values) |-> HeightStr(values[i])]
  IN  IF file.indent
        THEN <<" ">> \o Join([i \in 1..((2 * Len(toks)) - 1) |->
                                 IF i % 2 = 1 THEN toks[(i + 1) \div 2] ELSE <<>>])
        ELSE Join(toks)

\* The lines of row r: its several-value lines, then its closing line of
\* one value.
RowLines(file, r) ==
  LET row == FileRow(file, r)
      w == file.width
  IN  [l \in 1..(file.shape[r] + 1) |->
         IF l <= file.shape[r]
           THEN ValueLine(file, SubSeq(row, ((l - 1) * w) + 1, l * w))
           ELSE ValueLine(file, <<row[Len(row)]>>)]

RECURSIVE Concat(_)
Concat(seqs) == IF seqs = <<>> THEN <<>> ELSE Head(seqs) \o Concat(Tail(seqs))

\* "\n".join(lines)
RECURSIVE JoinLines(_)
JoinLines(lines) ==
  IF lines = <<>> THEN <<>>
  ELSE IF Len(lines) = 1 THEN lines[1]
  ELSE lines[1] \o <<"\n">> \o JoinLines(Tail(lines))

\* The text of a file: what egm96_file.read() returns.
FileText(file) ==
  JoinLines(<<file.header>>
              \o Concat([r \in 1..Len(file.shape) |-> RowLines(file, r)]))
    \o (IF file.newline THEN <<"\n">> ELSE <<>>)

\* list(filter(None, line_parts))
RECURSIVE FilterNone(_)
FilterNone(parts) ==
  IF parts = <<>> THEN <<>>
  ELSE IF Head(parts) = <<>> THEN FilterNone(Tail(parts))
  ELSE <<Head(parts)>> \o FilterNone(Tail(parts))

\* float(value) of a token of the file, in millimetres.
FloatMm(value) == FloatUnits(ParseFloat(value), 1000)

ReverseMutKeep(rows) == rows

\* list.reverse()
Reverse(rows) == [i \in 1..Len(rows) |-> rows[Len(rows) + 1 - i]]

\* __init__ has set Egm96GridHeights = [] and calls LoadData.
InitLoad ==
  /\ Egm96GridHeights = <<>>
  /\ ld \in {[NoLd EXCEPT !.pc = "open", !.file = f] : f \in Files}
  /\ gh = NoCall
  /\ DmsIdle /\ AngleIdle /\ EllipsoidIdle /\ GridIdle /\ InverseIdle /\ LocationIdle /\ PairIdle

\* data = egm96_file.read(); current_row = []; row_length = 0; and the
\* split of data into lines the loop enumerates.
ReadFile ==
  /\ ld.pc = "open"
  /\ ld' = [ld EXCEPT !.pc = "loop", !.data = FileText(ld.file),
              !.lines = Split(FileText(ld.file), "\n"), !.index = 0,
              !.current_row = <<>>, !.row_length = 0]
  /\ UNCHANGED <<Egm96GridHeights, gh, d2s, s2d, ca, el, gr, inv, loc, gp>>

\* One iteration of the loop over the lines.
ParseLine ==
  /\ ld.pc = "loop"
  /\ ld.index < Len(ld.lines)
  /\ LET line == ld.lines[ld.index + 1]
         line_parts == FilterNone(Split(line, " "))
         row == ld.current_row \o [i \in 1..Len(line_parts) |-> FloatMm(line_parts[i])]
     IN  \* Skip blank lines; skip the first item.
         IF line = <<>> \/ ld.index = 0
           THEN /\ ld' = [ld EXCEPT !.index = ld.index + 1]
                /\ UNCHANGED Egm96GridHeights
         \* End row when enough data captured.
         ELSE IF Len(line_parts) = 1
           THEN /\ Egm96GridHeights' = Append(Egm96GridHeights, row)
                /\ ld' = [ld EXCEPT !.index = ld.index + 1, !.current_row = <<>>,
                            !.row_length = 0]
         ELSE /\ ld' = [ld EXCEPT !.index = ld.index + 1, !.current_row = row,
                          !.row_length = ld.row_length + Len(line_parts)]
              /\ UNCHANGED Egm96GridHeights
  /\ UNCHANGED <<gh, d2s, s2d, ca, el, gr, inv, loc, gp>>

\* The loop is over: self.Egm96GridHeights.reverse().
ReverseRows ==
  /\ ld.pc = "loop"
  /\ ld.index = Len(ld.lines)
  /\ Egm96GridHeights' = Reverse(Egm96GridHeights)
  /\ ld' = [ld EXCEPT !.pc = "done"]
  /\ UNCHANGED <<gh, d2s, s2d, ca, el, gr, inv, loc, gp>>

NextLoad == ReadFile \/ ParseLine \/ ReverseRows

SpecLoad == InitLoad /\ [][NextLoad]_vars

\* C11: LoadData of a file of one header line and K rows, each row spread
\* over lines of several values and closed by a line of one value, leaves
\* exactly K rows in Egm96GridHeights; in-memory row i (from 0) is file row
\* K-1-i with all of its values in file order, the value of the closing
\* line last; the header contributes no value.
C11_RowsReversedAndComplete ==
  ld.pc = "done" =>
     LET K == Len(ld.file.shape)
     IN  /\ Len(Egm96GridHeights) = K
         /\ \A i \in 0..(K - 1) : Egm96GridHeights[i + 1] = FileRow(ld.file, K - i)

\* A file with a one-number header and two rows, the first of two lines of
\* three values and a closing line, the second of a closing line only, has
\* been loaded: its second row is row 0 and its first row is row 1.
C11_Witness ==
  /\ ld.pc = "done"
  /\ ld.file.header = <<"7">>
  /\ ld.file.shape = <<2, 0>> /\ ld.file.width = 3
  /\ Len(Egm96GridHeights) = 2
  /\ Len(Egm96GridHeights[1]) = 1 /\ Len(Egm96GridHeights[2]) = 7
  /\ Egm96GridHeights[2][7] = SampleHeight(0, 0, 6)
  /\ Egm96GridHeights[1] # SubSeq(Egm96GridHeights[2], 1, 1)

(***************************************************************************)
(* CLocation: a client constructs an object and calls its setters and      *)
(* getters in any order.                                                   *)
(*                                                                         *)
(* A latitude is a binary floating point number, and the shift by 90 of    *)
(* GetLat is a floating point addition, rounded to nearest, ties to even.  *)
(* The model keeps the rounding and shortens the mantissa: a latitude is   *)
(* an integer number of quanta of 2^-FracBits degree, and a float holds    *)
(* one quantum in [32, 64) degrees, two in [64, 128), four in [128, 256),  *)
(* as a double holds 2^-47, 2^-46 and 2^-45 degree there.  A longitude is  *)
(* a whole number of degrees.                                              *)
(***************************************************************************)

\* The binary digits a latitude keeps below one degree in [32, 64).
FracBits == 2

RECURSIVE Pow2(_)
Pow2(k) == IF k = 0 THEN 1 ELSE 2 * Pow2(k - 1)

\* The quanta of one degree.
Quantum == Pow2(FracBits)

\* The spacing of the floats around n, in quanta (one quantum below 64
\* degrees: the model holds no finer latitude).
Ulp(n) ==
  LET a == Abs(n)
  IN  IF a < 64 * Quantum THEN 1
      ELSE IF a < 128 * Quantum THEN 2
      ELSE IF a < 256 * Quantum THEN 4
      ELSE 8

\* The float nearest to n quanta, ties to even.
RoundFloat(n) == RoundHalfEven(n, Ulp(n)) * Ulp(n)

\* x + y and x - y of two floats (an int operand is converted exactly).
FloatAdd(x, y) == RoundFloat(x + y)
FloatSub(x, y) == RoundFloat(x - y)

GetLatMutNoShift(self, signed) ==
  [err |-> "none", val |-> self.Latitude]

\* CLocation.GetLat(signed): what it raises and what it returns.
GetLat(self, signed) ==
  IF signed = self.LatSigned THEN [err |-> "none", val |-> self.Latitude]
  \* None - 90, None + 90
  ELSE IF self.Latitude = None THEN [err |-> "TypeError", val |-> None]
  ELSE IF signed THEN [err |-> "none", val |-> FloatSub(self.Latitude, 90 * Quantum)]
  ELSE [err |-> "none", val |-> FloatAdd(self.Latitude, 90 * Quantum)]

\* CLocation.GetLon(signed) on an object whose Longitude may be None: both
\* rules of ConvertAngle compare the value with a number.
GetLonOrRaise(self, signed) ==
  IF self.Longitude = None THEN [err |-> "TypeError", val |-> None]
  ELSE [err |-> "none", val |-> GetLon(self, signed)]

\* CLocation.GetLatLon(signed)
GetLatLon(self, signed) ==
  LET lat == GetLat(self, signed)
      lon == GetLonOrRaise(self, signed)
  IN  IF lat.err # "none" THEN [err |-> lat.err, val |-> None]
      ELSE IF lon.err # "none" THEN [err |-> lon.err, val |-> None]
      ELSE [err |-> "none", val |-> <<lat.val, lon.val>>]

\* The latitudes a client sets, in quanta: the poles and the equator, and
\* values around 38 degrees (where lat + 90 reaches 128) and 64 degrees, on
\* and between the floats of the sums.
SignedLats ==
  { -90 * Quantum, (-45 * Quantum) - 1, -1, 0, 1, (37 * Quantum) + 2, 38 * Quantum,
    (38 * Quantum) + 1, (38 * Quantum) + 2, (38 * Quantum) + 3, (51 * Quantum) + 2,
    (64 * Quantum) - 1, 64 * Quantum, (64 * Quantum) + 2, 90 * Quantum }

\* The same positions in the unsigned convention (zero on the south pole).
UnsignedLats ==
  { 0, 1, (44 * Quantum) + 3, 90 * Quantum, (90 * Quantum) + 2, (127 * Quantum) + 2,
    128 * Quantum, (128 * Quantum) + 4, (141 * Quantum) + 4, 180 * Quantum }

\* A latitude with its convention.
LatArgs ==
  {<<lat, TRUE>> : lat \in SignedLats} \cup {<<lat, FALSE>> : lat \in UnsignedLats}

LonArgs == {<<-170, TRUE>>, <<10, TRUE>>, <<200, FALSE>>}

NameArgs == {<<>>, <<"A">>}

Getters == {"GetLat", "GetLon", "GetLatLon"}

\* The object a constructor call leaves: CLocation() or CLocation(lat, lon,
\* lat_signed, lon_signed).
InitLocation ==
  /\ \E o \in {CLocation(None, None, TRUE, TRUE)}
             \cup {CLocation(la[1], lo[1], la[2], lo[2]) : la \in LatArgs, lo \in LonArgs} :
       loc = [NoLoc EXCEPT !.obj = o, !.before = o, !.op = "__init__"]
  /\ EgmIdle /\ DmsIdle /\ AngleIdle /\ EllipsoidIdle /\ GridIdle /\ InverseIdle /\ LoadIdle
  /\ PairIdle

SetLatLonCall ==
  /\ \E la \in LatArgs, lo \in LonArgs :
       loc' = [NoLoc EXCEPT
                 !.obj = [loc.obj EXCEPT !.Latitude = la[1], !.Longitude = lo[1],
                                         !.LatSigned = la[2], !.LonSigned = lo[2]],
                 !.before = loc.obj, !.op = "SetLatLon"]
  /\ UNCHANGED <<Egm96GridHeights, gh, d2s, s2d, ca, el, gr, inv, ld, gp>>

SetNameCall ==
  /\ \E name \in NameArgs :
       loc' = [NoLoc EXCEPT !.obj = [loc.obj EXCEPT !.Name = name],
                 !.before = loc.obj, !.op = "SetName"]
  /\ UNCHANGED <<Egm96GridHeights, gh, d2s, s2d, ca, el, gr, inv, ld, gp>>

GetLatCall ==
  /\ \E signed \in BOOLEAN :
       LET r == GetLat(loc.obj, signed)
       IN  loc' = [obj |-> loc.obj, before |-> loc.obj, op |-> "GetLat",
                   signed |-> signed, err |-> r.err,
                   ret |-> IF r.err = "none" THEN <<r.val>> ELSE <<>>]
  /\ UNCHANGED <<Egm96GridHeights, gh, d2s, s2d, ca, el, gr, inv, ld, gp>>

GetLonCall ==
  /\ \E signed \in BOOLEAN :
       LET r == GetLonOrRaise(loc.obj, signed)
       IN  loc' = [obj |-> loc.obj, before |-> loc.obj, op |-> "GetLon",
                   signed |-> signed, err |-> r.err,
                   ret |-> IF r.err = "none" THEN <<r.val>> ELSE <<>>]
  /\ UNCHANGED <<Egm96GridHeights, gh, d2s, s2d, ca, el, gr, inv, ld, gp>>

GetLatLonCall ==
  /\ \E signed \in BOOLEAN :
       LET r == GetLatLon(loc.obj, signed)
       IN  loc' = [obj |-> loc.obj, before |-> loc.obj, op |-> "GetLatLon",
                   signed |-> signed, err |-> r.err, ret |-> r.val]
  /\ UNCHANGED <<Egm96GridHeights, gh, d2s, s2d, ca, el, gr, inv, ld, gp>>

NextLocation ==
  SetLatLonCall \/ SetNameCall \/ GetLatCall \/ GetLonCall \/ GetLatLonCall

SpecLocation == InitLocation /\ [][NextLocation]_vars

\* GetLat(signed=False) - GetLat(signed=True) on the object as it is, as
\* the float subtraction of the two results.
LatDifference ==
  FloatSub(GetLat(loc.obj, FALSE).val, GetLat(loc.obj, TRUE).val)

\* GetLat with the flag the latitude was stored with returns it unchanged.
StoredLatUnchanged ==
  GetLat(loc.obj, loc.obj.LatSigned) = [err |-> "none", val |-> loc.obj.Latitude]

\* The last call, if a getter, changed no field of the object.
GettersChangeNothing == loc.op \in Getters => loc.obj = loc.before

\* C12, as claimed: after any sequence of calls GetLat(signed=False) -
\* GetLat(signed=True) is exactly 90, GetLat with the stored flag returns the
\* stored latitude, and no getter changes a field.
C12_DifferenceExactly90 ==
  /\ GetLat(loc.obj, FALSE).err = "none" /\ GetLat(loc.obj, TRUE).err = "none"
  /\ LatDifference = 90 * Quantum
  /\ StoredLatUnchanged
  /\ GettersChangeNothing

\* C12, amended: after any sequence of calls that has set a latitude (not
\* None) within the range of its convention, GetLat(signed=False) -
\* GetLat(signed=True) differs from 90 by at most one unit in the last
\* place of 90, and is exactly 90 when the latitude is stored unsigned or is
\* a whole number of degrees; GetLat with the stored flag returns the stored
\* latitude (None included), and no getter changes a field.
C12_DifferenceWithinRounding ==
  /\ loc.obj.Latitude # None =>
       /\ GetLat(loc.obj, FALSE).err = "none" /\ GetLat(loc.obj, TRUE).err = "none"
       /\ Abs(LatDifference - (90 * Quantum)) <= Ulp(90 * Quantum)
       /\ (~loc.obj.LatSigned \/ loc.obj.Latitude % Quantum = 0) =>
            LatDifference = 90 * Quantum
  /\ StoredLatUnchanged
  /\ GettersChangeNothing

\* After SetLatLon of 38.5 degrees (signed) and SetName, GetLat(signed=False)
\* has returned 128 degrees, the float nearest to 128.5.
C12_Witness ==
  /\ loc.op = "GetLat" /\ ~loc.signed
  /\ loc.obj.Name = <<"A">>
  /\ loc.obj.LatSigned /\ loc.obj.Latitude = (38 * Quantum) + 2
  /\ loc.err = "none" /\ loc.ret = <<128 * Quantum>>
  /\ loc.obj = loc.before

(***************************************************************************)
(* Grid references of two positions: a client formats one position and     *)
(* then another, with the default digits = 10.                             *)
(***************************************************************************)

\* The positions of a 100 km square a client formats: its south-west
\* corner, and a point inside it; <<easting, northing>> in metres from the
\* corner.
InSquare == {<<0, 0>>, <<51409, 99999>>}

Positions ==
  { [etings |-> (e100 * 100000) + r[1], ntings |-> (n100 * 100000) + r[2]] :
      e100 \in 0..(EastSquares - 1), n100 \in 0..(NorthSquares - 1), r \in InSquare }

InitPair ==
  /\ EgmIdle /\ DmsIdle /\ AngleIdle /\ EllipsoidIdle /\ GridIdle /\ InverseIdle /\ LoadIdle
  /\ LocationIdle /\ PairIdle

FirstGridCall ==
  /\ gp.calls = 0
  /\ \E p \in Positions :
       gp' = [gp EXCEPT !.calls = 1,
                !.first = [ntings |-> p.ntings, etings |-> p.etings,
                           ret |-> NorthingsEastingsToGrid(p.ntings, p.etings, 10)]]
  /\ UNCHANGED <<Egm96GridHeights, gh, d2s, s2d, ca, el, gr, inv, ld, loc>>

SecondGridCall ==
  /\ gp.calls = 1
  /\ \E p \in Positions :
       gp' = [gp EXCEPT !.calls = 2,
                !.second = [ntings |-> p.ntings, etings |-> p.etings,
                            ret |-> NorthingsEastingsToGrid(p.ntings, p.etings, 10)]]
  /\ UNCHANGED <<Egm96GridHeights, gh, d2s, s2d, ca, el, gr, inv, ld, loc>>

NextPair == FirstGridCall \/ SecondGridCall

SpecPair == InitPair /\ [][NextPair]_vars

\* The 100 km square of a position, and whether the position lies in the
\* grid: easting in [0, 700000) and northing in [0, 1300000).
SquareOf(p) == <<p.etings \div 100000, p.ntings \div 100000>>
InGrid(p) ==
  p.etings >= 0 /\ p.etings < 700000 /\ p.ntings >= 0 /\ p.ntings < 1300000

\* C13: two positions of the grid get the same two-letter code exactly when
\* they lie in the same 100 km square: different squares get different
\* letter pairs, and two positions of one square the same pair.
C13_LetterPairIdentifiesSquare ==
  (gp.calls = 2 /\ InGrid(gp.first) /\ InGrid(gp.second)) =>
     ((SquareOf(gp.first) = SquareOf(gp.second))
        <=> (SubSeq(gp.first.ret, 1, 2) = SubSeq(gp.second.ret, 1, 2)))

\* The corner of square (5, 3) was formatted as "TF ..." and a point inside
\* square (6, 3) as "TG ...".
C13_Witness ==
  /\ gp.calls = 2
  /\ gp.first.etings = 500000 /\ gp.first.ntings = 300000
  /\ gp.second.etings = 651409 /\ gp.second.ntings = 399999
  /\ SubSeq(gp.first.ret, 1, 2) = <<"T", "F">>
  /\ gp.second.ret = <<"T", "G", " ", "5", "1", "4", "0", "9", " ", "9", "9", "9", "9", "9">>

====
